---- MODULE Spec2Model ----
(***************************************************************************)
(* Fixed-cycle traffic intersection of src/traffic.py: SignalPhase,        *)
(* TrafficLight and IntersectionController, driven as simulate() and the   *)
(* unit tests drive them: add_light calls, sort_lights, update calls.       *)
(***************************************************************************)
EXTENDS Integers, Sequences, FiniteSets, TLC

VARIABLES
    all_red_time,        \* IntersectionController.all_red_time
    time_in_all_red,     \* IntersectionController.time_in_all_red
    lights,              \* IntersectionController.lights: key -> TrafficLight
    current_group,       \* IntersectionController.current_group (0-based)
    current_group_phase, \* IntersectionController.current_group_phase: list of lists of keys
    light,               \* the stand-alone TrafficLight of test_traffic_light_cycle
    pc,                  \* driver position: "config", "run", "crashed", "light"
    sorted,              \* history: sort_lights() has been called
    err,                 \* outcome of the last call: "none" or the exception raised
    ticks,               \* history: number of update() calls made so far
    completions,         \* history: number of times the active group came to rest RED(0)
    completed,           \* history: index of the group that completed last, -1 if none
    red_run,             \* history: key -> consecutive latest post-update states with the light RED
    frozen_run           \* history: consecutive latest update() calls that changed no light

vars == <<all_red_time, time_in_all_red, lights, current_group, current_group_phase,
          light, pc, sorted, err, ticks, completions, completed, red_run, frozen_run>>

ctl_vars == <<all_red_time, time_in_all_red, lights, current_group, current_group_phase,
              sorted, completions, completed, red_run, frozen_run>>

--------------------------------------------------------------------------
(* Bounds of the model *)

MaxLanes == 2
MaxTicks == 16
MaxAllRed == 4
MaxGreen == 3
MaxYellow == 2

--------------------------------------------------------------------------
(* Lane keys: the (direction, lane_type) tuples that simulate() prompts for *)

Directions == {"NS", "EW"}
LaneTypes == {"through", "left-turn"}
Keys == Directions \X LaneTypes

\* Python compares the strings by code point: "EW" < "NS", "left-turn" < "through"
DirRank(d) == IF d = "NS" THEN 1 ELSE 0
TypeRank(t) == IF t = "through" THEN 1 ELSE 0

\* tuple comparison a < b, lexicographic
KeyLess(a, b) ==
    \/ DirRank(a[1]) < DirRank(b[1])
    \/ DirRank(a[1]) = DirRank(b[1]) /\ TypeRank(a[2]) < TypeRank(b[2])

\* list comparison g1 < g2, lexicographic over the keys, a proper prefix being smaller
RECURSIVE GroupLess(_, _)
GroupLess(g1, g2) ==
    IF g2 = <<>> THEN FALSE
    ELSE IF g1 = <<>> THEN TRUE
    ELSE IF KeyLess(g1[1], g2[1]) THEN TRUE
    ELSE IF KeyLess(g2[1], g1[1]) THEN FALSE
    ELSE GroupLess(Tail(g1), Tail(g2))

--------------------------------------------------------------------------
(* SignalPhase and TrafficLight *)

SignalPhase(green_time, yellow_time) ==
    [green_time |-> green_time, yellow_time |-> yellow_time, red_time |-> 0]

\* mutant: a new light starts GREEN
TrafficLight_Green(signal_phase) ==
    [signal_phase |-> signal_phase, state |-> "GREEN", timer |-> signal_phase.red_time]

TrafficLight(signal_phase) ==
    [signal_phase |-> signal_phase, state |-> "RED", timer |-> signal_phase.red_time]

\* mutant: the state after GREEN is misspelt
advance_state_Amber(l) ==
    IF l.state = "RED"
    THEN [l EXCEPT !.state = "GREEN", !.timer = l.signal_phase.green_time]
    ELSE IF l.state = "GREEN"
    THEN [l EXCEPT !.state = "AMBER", !.timer = l.signal_phase.yellow_time]
    ELSE IF l.state = "YELLOW"
    THEN [l EXCEPT !.state = "RED", !.timer = l.signal_phase.red_time]
    ELSE l

advance_state(l) ==
    IF l.state = "RED"
    THEN [l EXCEPT !.state = "GREEN", !.timer = l.signal_phase.green_time]
    ELSE IF l.state = "GREEN"
    THEN [l EXCEPT !.state = "YELLOW", !.timer = l.signal_phase.yellow_time]
    ELSE IF l.state = "YELLOW"
    THEN [l EXCEPT !.state = "RED", !.timer = l.signal_phase.red_time]
    ELSE l

\* mutant: the transition fires one tick late
Expired_Late(t) == t < -1

\* mutant: the transition fires one tick early
Expired_Early(t) == t <= 0

\* the test  self.timer < 0  of TrafficLight.update
Expired(t) == t < 0

\* TrafficLight.update
update(l) ==
    LET d == [l EXCEPT !.timer = l.timer - 1]
    IN  IF Expired(d.timer) THEN advance_state(d) ELSE d

\* the else branch of the dispatch loop: a light outside the active group
force_red(l) == IF l.state # "RED" THEN [l EXCEPT !.state = "RED"] ELSE l

--------------------------------------------------------------------------
(* IntersectionController *)

\* the durations the controller's lanes are configured with
CtlPhases == {SignalPhase(0, 0), SignalPhase(1, 0), SignalPhase(2, 1), SignalPhase(3, 2)}

\* current_group_phase[current_group] (Python index 0-based, sequences 1-based)
ActiveGroup(groups, cg) == groups[cg + 1]

InGroup(key, group) == \E i \in 1..Len(group) : group[i] = key

\* mutant: membership in any group instead of the active one
InActiveGroup_AnyGroup(key, groups, cg) ==
    \E i \in 1..Len(groups) : InGroup(key, groups[i])

\* key in self.current_group_phase[self.current_group]
InActiveGroup(key, groups, cg) == InGroup(key, ActiveGroup(groups, cg))

\* mutant: the gate opens one tick early
InClearance_Early(t) == t > 2

\* mutant: the gate opens two ticks early
InClearance_Earlier(t) == t > 3

\* mutant: the gate stays shut until the counter reaches 0
InClearance_Zero(t) == t > 0

\* the clearance gate  self.time_in_all_red > 1
InClearance(t) == t > 1

\* mutant: a light of the active group is updated twice in one tick
Dispatch_Twice(ls, groups, cg) ==
    [k \in DOMAIN ls |->
        IF InActiveGroup(k, groups, cg) THEN update(update(ls[k])) ELSE force_red(ls[k])]

\* the for loop of IntersectionController.update over lights.items()
Dispatch(ls, groups, cg) ==
    [k \in DOMAIN ls |->
        IF InActiveGroup(k, groups, cg) THEN update(ls[k]) ELSE force_red(ls[k])]

\* mutant: any(...) in place of all(...)
GroupComplete_Any(ls, groups) ==
    \E i \in 1..Len(groups) :
        ls[groups[i][1]].state = "RED" /\ ls[groups[i][1]].timer = 0

\* the all(...) of the completion check: key ranges over the groups, key[0] is
\* the first lane key of each group
GroupComplete(ls, groups) ==
    \A i \in 1..Len(groups) :
        ls[groups[i][1]].state = "RED" /\ ls[groups[i][1]].timer = 0

\* mutant: the index is not advanced
NextGroup_Stay(cg, n) == cg % n

\* (self.current_group + 1) % len(self.current_group_phase)
NextGroup(cg, n) == (cg + 1) % n

\* list.sort(reverse=True): stable, descending. Insert x after every element
\* that is not smaller than x.
RECURSIVE InsertDesc(_, _)
InsertDesc(x, s) ==
    IF s = <<>> THEN <<x>>
    ELSE IF GroupLess(s[1], x) THEN <<x>> \o s
    ELSE <<s[1]>> \o InsertDesc(x, Tail(s))

RECURSIVE SortDesc(_)
SortDesc(s) ==
    IF s = <<>> THEN <<>>
    ELSE InsertDesc(s[Len(s)], SortDesc(SubSeq(s, 1, Len(s) - 1)))

--------------------------------------------------------------------------
(* History helpers *)

\* every lane of the active group rests in RED with timer 0
ActiveAtRest(ls, groups, cg) ==
    \A i \in 1..Len(ActiveGroup(groups, cg)) :
        ls[ActiveGroup(groups, cg)[i]].state = "RED"
        /\ ls[ActiveGroup(groups, cg)[i]].timer = 0

RedRun(ls) ==
    [k \in DOMAIN ls |-> IF ls[k].state = "RED" THEN red_run[k] + 1 ELSE 0]

--------------------------------------------------------------------------
(* Initial states *)

\* IntersectionController.__init__
InitController ==
    /\ all_red_time \in 0..MaxAllRed
    /\ time_in_all_red = 0
    /\ lights = [k \in {} |-> TrafficLight(SignalPhase(0, 0))]
    /\ current_group = 0
    /\ current_group_phase = <<>>
    /\ light = TrafficLight(SignalPhase(0, 0))
    /\ pc = "config"
    /\ sorted = FALSE
    /\ err = "none"
    /\ ticks = 0
    /\ completions = 0
    /\ completed = -1
    /\ red_run = [k \in {} |-> 0]
    /\ frozen_run = 0

\* test_traffic_light_cycle: one TrafficLight on its own
InitLight ==
    /\ all_red_time = 4
    /\ time_in_all_red = 0
    /\ lights = [k \in {} |-> TrafficLight(SignalPhase(0, 0))]
    /\ current_group = 0
    /\ current_group_phase = <<>>
    /\ \E g \in 0..MaxGreen, y \in 0..MaxYellow : light = TrafficLight(SignalPhase(g, y))
    /\ pc = "light"
    /\ sorted = FALSE
    /\ err = "none"
    /\ ticks = 0
    /\ completions = 0
    /\ completed = -1
    /\ red_run = [k \in {} |-> 0]
    /\ frozen_run = 0

Init == InitController \/ InitLight

--------------------------------------------------------------------------
(* Actions *)

\* IntersectionController.add_light
add_light(direction, lane_type, signal_phase) ==
    /\ pc = "config"
    /\ ~sorted
    /\ Len(current_group_phase) < MaxLanes
    /\ lights' = [k \in DOMAIN lights \cup {<<direction, lane_type>>} |->
                    IF k = <<direction, lane_type>> THEN TrafficLight(signal_phase)
                    ELSE lights[k]]
    /\ current_group_phase' = Append(current_group_phase, << <<direction, lane_type>> >>)
    /\ red_run' = [k \in DOMAIN lights \cup {<<direction, lane_type>>} |-> 0]
    /\ err' = "none"
    /\ UNCHANGED <<all_red_time, time_in_all_red, current_group, light, pc, sorted,
                   ticks, completions, completed, frozen_run>>

AddLight ==
    \E k \in Keys, p \in CtlPhases : add_light(k[1], k[2], p)

\* the same call with a SignalPhase built from a negative duration
AddLightNegative ==
    \E k \in Keys, g \in {-1, 0, 2}, y \in {-1, 0, 1} :
        /\ g < 0 \/ y < 0
        /\ add_light(k[1], k[2], SignalPhase(g, y))

\* IntersectionController.sort_lights
SortLights ==
    /\ pc = "config"
    /\ ~sorted
    /\ current_group_phase' = SortDesc(current_group_phase)
    /\ sorted' = TRUE
    /\ err' = "none"
    /\ UNCHANGED <<all_red_time, time_in_all_red, lights, current_group, light, pc,
                   ticks, completions, completed, red_run, frozen_run>>

\* IntersectionController.update
Update ==
    /\ pc \in {"config", "run"}
    /\ ticks < MaxTicks
    /\ ticks' = ticks + 1
    /\ UNCHANGED <<all_red_time, current_group_phase, light, sorted>>
    /\ IF InClearance(time_in_all_red)
       THEN /\ time_in_all_red' = time_in_all_red - 1
            /\ pc' = "run"
            /\ err' = "none"
            /\ red_run' = RedRun(lights)
            /\ frozen_run' = frozen_run + 1
            /\ UNCHANGED <<lights, current_group, completions, completed>>
       ELSE LET ls == Dispatch(lights, current_group_phase, current_group)
                rest == /\ current_group_phase # <<>>
                        /\ ActiveAtRest(ls, current_group_phase, current_group)
            IN  /\ lights' = ls
                /\ red_run' = RedRun(ls)
                /\ frozen_run' = IF ls = lights THEN frozen_run + 1 ELSE 0
                /\ completions' = IF rest THEN completions + 1 ELSE completions
                /\ completed' = IF rest THEN current_group ELSE completed
                /\ IF GroupComplete(ls, current_group_phase)
                   THEN IF Len(current_group_phase) = 0
                        THEN \* ZeroDivisionError from the modulo
                             /\ err' = "ZeroDivisionError"
                             /\ pc' = "crashed"
                             /\ UNCHANGED <<current_group, time_in_all_red>>
                        ELSE /\ current_group' =
                                    NextGroup(current_group, Len(current_group_phase))
                             /\ time_in_all_red' = all_red_time
                             /\ pc' = "run"
                             /\ err' = "none"
                   ELSE /\ pc' = "run"
                        /\ err' = "none"
                        /\ UNCHANGED <<current_group, time_in_all_red>>

\* light.update() on the stand-alone TrafficLight
LightUpdate ==
    /\ pc = "light"
    /\ ticks < MaxTicks
    /\ light' = update(light)
    /\ ticks' = ticks + 1
    /\ UNCHANGED <<ctl_vars, pc, err>>

Next == AddLight \/ SortLights \/ Update \/ LightUpdate

Spec == Init /\ [][Next]_vars

\* the program with SignalPhase objects of negative duration among its inputs
NextNegative == Next \/ AddLightNegative

SpecNegative == Init /\ [][NextNegative]_vars


\* IntersectionController.update, as called without end by the loop of
\* simulate(): the same call with the history variables left alone
UpdateLive ==
    /\ pc \in {"config", "run"}
    /\ UNCHANGED <<all_red_time, current_group_phase, light, sorted,
                   ticks, completions, completed, red_run, frozen_run>>
    /\ IF InClearance(time_in_all_red)
       THEN /\ time_in_all_red' = time_in_all_red - 1
            /\ pc' = "run"
            /\ err' = "none"
            /\ UNCHANGED <<lights, current_group>>
       ELSE LET ls == Dispatch(lights, current_group_phase, current_group)
            IN  /\ lights' = ls
                /\ IF GroupComplete(ls, current_group_phase)
                   THEN IF Len(current_group_phase) = 0
                        THEN /\ err' = "ZeroDivisionError"
                             /\ pc' = "crashed"
                             /\ UNCHANGED <<current_group, time_in_all_red>>
                        ELSE /\ current_group' =
                                    NextGroup(current_group, Len(current_group_phase))
                             /\ time_in_all_red' = all_red_time
                             /\ pc' = "run"
                             /\ err' = "none"
                   ELSE /\ pc' = "run"
                        /\ err' = "none"
                        /\ UNCHANGED <<current_group, time_in_all_red>>

\* the durations drawn for the lanes of the endless run: the zero phase and
\* the phase of test_controller_update_red_reset
LivePhases == {SignalPhase(0, 0), SignalPhase(2, 1)}

AddLightLive ==
    \E k \in Keys, p \in LivePhases : add_light(k[1], k[2], p)

NextLive == AddLightLive \/ SortLights \/ UpdateLive

\* the loop of simulate() keeps calling update()
SpecLive == InitController /\ [][NextLive]_vars /\ WF_vars(UpdateLive)

--------------------------------------------------------------------------
(* Properties *)

\* the keys added are distinct: one light per group
DistinctKeys == Cardinality(DOMAIN lights) = Len(current_group_phase)

NonRed(k) == lights[k].state \in {"GREEN", "YELLOW"}

GroupsShowing ==
    {i \in 1..Len(current_group_phase) :
        \E j \in 1..Len(current_group_phase[i]) : NonRed(current_group_phase[i][j])}

\* C1 - Mutual exclusion: with distinct keys and sort_lights called, after every
\* update() at most one group has a lane GREEN or YELLOW and every lane outside
\* the group indexed by current_group is RED.
C1_MutualExclusion ==
    (pc = "run" /\ sorted /\ DistinctKeys) =>
        /\ Cardinality(GroupsShowing) <= 1
        /\ \A k \in DOMAIN lights :
              ~InGroup(k, current_group_phase[current_group + 1])
                  => lights[k].state = "RED"

\* the second group of a two-lane controller shows GREEN while the first is RED
C1_Witness ==
    /\ pc = "run" /\ sorted /\ DistinctKeys
    /\ Len(current_group_phase) = 2
    /\ current_group = 1
    /\ lights[current_group_phase[2][1]].state = "GREEN"
    /\ lights[current_group_phase[1][1]].state = "RED"

\* an update() step on which a lane of the active group leaves RED after some
\* group has completed
LeavesRedAfterCompletion ==
    /\ ticks' = ticks + 1
    /\ pc' = "run"
    /\ completed >= 0
    /\ \E k \in DOMAIN lights :
          /\ InGroup(k, current_group_phase[current_group + 1])
          /\ lights[k].state = "RED"
          /\ lights'[k].state # "RED"

\* C2 (as stated) - Clearance enforcement: after a completion at least
\* all_red_time update() calls that change no light occur before a lane of the
\* newly active group leaves RED.
C2_ClearanceFull ==
    [][LeavesRedAfterCompletion => frozen_run >= all_red_time]_vars

\* C2 (amended) - after a completion at least all_red_time - 1 update() calls
\* that change no light occur before a lane of the newly active group leaves RED.
C2_ClearanceLessOne ==
    [][LeavesRedAfterCompletion => frozen_run >= all_red_time - 1]_vars

\* a lane has left RED after a completion followed by a clearance of 3 frozen ticks
C2_Witness ==
    /\ pc = "run" /\ completions = 1 /\ all_red_time = 4
    /\ frozen_run = 0
    /\ \E k \in DOMAIN lights :
          /\ InGroup(k, current_group_phase[current_group + 1])
          /\ lights[k].state = "GREEN"
          /\ lights[k].timer = lights[k].signal_phase.green_time

\* C3 - when a lane of the newly active group turns GREEN, every lane of the
\* group that completed last has been RED in the states after at least
\* all_red_time consecutive immediately preceding update() calls.
C3_RedWindowBeforeGreen ==
    [][LeavesRedAfterCompletion =>
          \A j \in 1..Len(current_group_phase[completed + 1]) :
              red_run[current_group_phase[completed + 1][j]] >= all_red_time]_vars

\* the second group is GREEN after the first was RED through a window of 4
C3_Witness ==
    /\ pc = "run" /\ completions = 1 /\ all_red_time = 4 /\ DistinctKeys
    /\ Len(current_group_phase) = 2
    /\ lights[current_group_phase[2][1]].state = "GREEN"
    /\ red_run[current_group_phase[1][1]] >= 5

\* C4 - Cycle closure of a stand-alone TrafficLight with SignalPhase(g, y): GREEN
\* with timer g after 1 update(), YELLOW with timer y after g+1 more, RED with
\* timer red_time = 0 after y+1 more.
C4_CycleClosure ==
    pc = "light" =>
        LET g == light.signal_phase.green_time
            y == light.signal_phase.yellow_time
        IN  /\ ticks = 0 => light.state = "RED" /\ light.timer = 0
            /\ ticks = 1 => light.state = "GREEN" /\ light.timer = g
            /\ ticks = 1 + g + 1 => light.state = "YELLOW" /\ light.timer = y
            /\ ticks = 1 + g + 1 + y + 1 =>
                  light.state = "RED" /\ light.timer = light.signal_phase.red_time

\* the light of the unit test, SignalPhase(3, 2), is back at RED after 8 updates
C4_Witness ==
    /\ pc = "light" /\ light.signal_phase = SignalPhase(3, 2)
    /\ ticks = 8 /\ light.state = "RED" /\ light.timer = 0

NonNegativePhase(p) == p.green_time >= 0 /\ p.yellow_time >= 0

\* C5 - Non-negative timer: after TrafficLight.update() or
\* IntersectionController.update() returns, the timer of every light with
\* non-negative durations is >= 0.
C5_NonNegativeTimer ==
    /\ NonNegativePhase(light.signal_phase) => light.timer >= 0
    /\ \A k \in DOMAIN lights :
          NonNegativePhase(lights[k].signal_phase) => lights[k].timer >= 0

\* a controller light whose timer passed -1 inside update() and was reset to 0
C5_Witness ==
    /\ pc = "run" /\ ticks >= 2
    /\ \E k \in DOMAIN lights :
          /\ lights[k].signal_phase = SignalPhase(0, 0)
          /\ lights[k].state = "YELLOW" /\ lights[k].timer = 0

\* the single-lane controller of the scenario: SignalPhase(3, 2), all_red_time 4
IsScenario ==
    /\ pc = "run"
    /\ Len(current_group_phase) = 1
    /\ all_red_time = 4
    /\ lights[current_group_phase[1][1]].signal_phase = SignalPhase(3, 2)

Shown == <<lights[current_group_phase[1][1]].state, lights[current_group_phase[1][1]].timer>>

ScenarioCycle ==
    << <<"GREEN", 3>>, <<"GREEN", 2>>, <<"GREEN", 1>>, <<"GREEN", 0>>,
       <<"YELLOW", 2>>, <<"YELLOW", 1>>, <<"YELLOW", 0>>, <<"RED", 0>> >>

\* C6 (as stated) - Concrete scenario: GREEN(3) at tick 1 ... YELLOW(2) at tick 5
\* ... RED(0) with completion at tick 8, frozen RED on the next 4 update() calls
\* (ticks 9..12), GREEN(3) on the update() after them (tick 13).
C6_ScenarioFourFrozen ==
    IsScenario =>
        /\ ticks \in 1..8 => Shown = ScenarioCycle[ticks]
        /\ ticks = 8 => completions = 1 /\ time_in_all_red = 4
        /\ ticks \in 9..12 => Shown = <<"RED", 0>> /\ frozen_run = ticks - 8
        /\ ticks = 13 => Shown = <<"GREEN", 3>>

\* C6 (amended) - the same up to the completion at tick 8; the next 3 update()
\* calls (ticks 9..11) leave the light frozen RED and GREEN(3) resumes at tick 12.
C6_ScenarioThreeFrozen ==
    IsScenario =>
        /\ ticks \in 1..8 => Shown = ScenarioCycle[ticks]
        /\ ticks = 8 => completions = 1 /\ time_in_all_red = 4
        /\ ticks \in 9..11 => Shown = <<"RED", 0>> /\ frozen_run = ticks - 8
        /\ ticks \in 12..16 => Shown = ScenarioCycle[ticks - 11]

\* the scenario has run through its clearance and GREEN(3) has resumed
C6_Witness == IsScenario /\ ticks = 12 /\ Shown = <<"GREEN", 3>> /\ completions = 1

\* the two-group controller: two distinct lanes, both SignalPhase(2, 1), all_red_time 2
IsTwoGroup ==
    /\ pc = "run"
    /\ Len(current_group_phase) = 2
    /\ DistinctKeys
    /\ all_red_time = 2
    /\ \A k \in DOMAIN lights : lights[k].signal_phase = SignalPhase(2, 1)

\* C7 - Two-group alternation: the first active group's lane completes (tick 6)
\* before the other group's lane ever leaves RED; current_group takes the values
\* 0,1,0,1,..., changing by one step on each completion and at no other time.
C7_TwoGroupAlternation ==
    /\ [](IsTwoGroup =>
            /\ completions = 0 => lights[current_group_phase[2][1]].state = "RED"
            /\ ticks >= 6 => completions >= 1
            /\ ticks >= 13 => completions >= 2
            /\ current_group = completions % 2)
    /\ [][(IsTwoGroup' /\ ticks' = ticks + 1) =>
            /\ (current_group' # current_group) <=> (completions' = completions + 1)
            /\ current_group' # current_group => current_group' = (current_group + 1) % 2
         ]_vars

\* after the second completion the index is back at the first group
C7_Witness == IsTwoGroup /\ completions = 2 /\ current_group = 0 /\ ticks = 13

--------------------------------------------------------------------------
(* Configuration and input errors *)

Untouched ==
    /\ \A k \in DOMAIN lights : lights[k].state = "RED" /\ lights[k].timer = 0
    /\ current_group = 0
    /\ time_in_all_red = 0

\* C8 - Configuration misuse fails fast: sort_lights() with no lane added, or
\* update() before sort_lights(), ends in an invalid-state error and changes no
\* light, current_group or time_in_all_red.
C8_MisuseFailsFast ==
    /\ (pc = "config" /\ sorted /\ current_group_phase = <<>>) => err = "InvalidState"
    /\ (pc \in {"run", "crashed"} /\ ~sorted) => (err = "InvalidState" /\ Untouched)

\* C9 - Invalid phase durations are rejected at construction, so update() never
\* sets a light's timer from a negative duration.
C9_NegativeNeverReachesTimer ==
    \A k \in DOMAIN lights : lights[k].timer >= 0

\* C10 - Group partition: after add_light calls (repeated keys included) and
\* sort_lights, every key of lights is in exactly one group and the groups
\* together hold exactly the keys of lights.
C10_GroupPartition ==
    sorted =>
        /\ \A k \in DOMAIN lights :
              Cardinality({i \in 1..Len(current_group_phase) :
                              InGroup(k, current_group_phase[i])}) = 1
        /\ {current_group_phase[i][j] :
                i \in 1..Len(current_group_phase), j \in {1}} = DOMAIN lights

--------------------------------------------------------------------------
(* Frame conditions and behaviour of the operations *)

\* C11 - add_light(direction, lane_type, phase) makes the key a key of lights
\* mapped to a light RED with timer 0 and appends the single-element group of
\* that key at the end; no other light and no existing group changes.
C11_AddLightFrame ==
    [][Len(current_group_phase') = Len(current_group_phase) + 1 =>
          LET key == current_group_phase'[Len(current_group_phase')][1]
          IN  /\ current_group_phase' = Append(current_group_phase, <<key>>)
              /\ DOMAIN lights' = DOMAIN lights \cup {key}
              /\ lights'[key].state = "RED"
              /\ lights'[key].timer = 0
              /\ \A k \in DOMAIN lights \ {key} : lights'[k] = lights[k]
      ]_vars

\* a second lane has been added after a first, different one
C11_Witness ==
    /\ pc = "config"
    /\ Len(current_group_phase) = 2
    /\ Cardinality(DOMAIN lights) = 2
    /\ \A k \in DOMAIN lights : lights[k].state = "RED" /\ lights[k].timer = 0

\* C12 - every light is RED when it is registered, and after any number of
\* update() calls on a controller of two or more lanes, sorted or not, every
\* light's state is one of RED, GREEN, YELLOW.
C12_StatesInSet ==
    /\ pc = "config" => \A k \in DOMAIN lights : lights[k].state = "RED"
    /\ (pc = "run" /\ Len(current_group_phase) >= 2) =>
          \A k \in DOMAIN lights : lights[k].state \in {"RED", "GREEN", "YELLOW"}

\* the controller of test_controller_update_red_reset after its 10 updates
C12_Witness ==
    /\ pc = "run" /\ ~sorted /\ ticks = 10
    /\ current_group_phase = << << <<"NS", "through">> >>, << <<"EW", "left-turn">> >> >>
    /\ \A k \in DOMAIN lights : lights[k].signal_phase = SignalPhase(2, 1)

\* an update() step of a controller with at least one lane that passes the
\* clearance gate
DispatchingStep ==
    /\ ticks' = ticks + 1
    /\ pc' = "run"
    /\ current_group_phase # <<>>
    /\ time_in_all_red <= 1

\* the lanes of the group that is active before the step
ActiveKeys ==
    {current_group_phase[current_group + 1][j] :
        j \in 1..Len(current_group_phase[current_group + 1])}

\* C13 - Completion check: on every update() that passes the clearance gate,
\* current_group becomes (current_group + 1) mod group_count and time_in_all_red
\* becomes all_red_time if and only if after dispatch every lane of the active
\* group is RED with timer 0 (decided by the light of the full key); otherwise
\* both are unchanged. For every configuration of distinct lanes.
C13_CompletionCheck ==
    [][(DispatchingStep /\ DistinctKeys) =>
          IF \A k \in ActiveKeys : lights'[k].state = "RED" /\ lights'[k].timer = 0
          THEN /\ current_group' = (current_group + 1) % Len(current_group_phase)
               /\ time_in_all_red' = all_red_time
          ELSE /\ current_group' = current_group
               /\ time_in_all_red' = time_in_all_red
      ]_vars

\* two lane categories of one direction; the first has completed and the second
\* is under way
C13_Witness ==
    /\ pc = "run" /\ DistinctKeys
    /\ DOMAIN lights = {<<"NS", "through">>, <<"NS", "left-turn">>}
    /\ completions = 1 /\ current_group = 1
    /\ \E k \in DOMAIN lights : lights[k].state = "YELLOW"

\* C14 - Clearance gate: update() with time_in_all_red > 1 decreases it by
\* exactly 1 and leaves every light and current_group unchanged; update() with
\* time_in_all_red <= 1 does not decrement it and performs dispatch (every
\* active lane is updated) and the completion check.
C14_ClearanceGate ==
    [][(ticks' = ticks + 1 /\ pc' = "run") =>
          IF time_in_all_red > 1
          THEN /\ time_in_all_red' = time_in_all_red - 1
               /\ lights' = lights
               /\ current_group' = current_group
          ELSE /\ \A k \in ActiveKeys \cap DOMAIN lights : lights'[k] = update(lights[k])
               /\ \/ /\ time_in_all_red' = time_in_all_red
                     /\ current_group' = current_group
                  \/ /\ \A k \in ActiveKeys : lights'[k].state = "RED" /\ lights'[k].timer = 0
                     /\ time_in_all_red' = all_red_time
                     /\ current_group' = (current_group + 1) % Len(current_group_phase)
      ]_vars

\* the last frozen tick of a clearance of 4 has passed: the counter is at 1
\* and the next lane is still RED
C14_Witness ==
    /\ pc = "run" /\ all_red_time = 4 /\ time_in_all_red = 1
    /\ frozen_run = 3 /\ completions = 1

\* C15 - Dispatch: on an update() that passes the gate every light of the
\* active group has TrafficLight.update() applied exactly once, and every other
\* light ends the tick RED with the timer it had before the tick.
C15_Dispatch ==
    [][DispatchingStep =>
          \A k \in DOMAIN lights :
              IF k \in ActiveKeys
              THEN lights'[k] = update(lights[k])
              ELSE /\ lights'[k].state = "RED"
                   /\ lights'[k].timer = lights[k].timer
      ]_vars

\* the second of two lanes is being served while the first is held RED
C15_Witness ==
    /\ pc = "run" /\ DistinctKeys /\ Len(current_group_phase) = 2
    /\ current_group = 1
    /\ lights[current_group_phase[2][1]].state = "GREEN"
    /\ lights[current_group_phase[2][1]].timer = 1
    /\ lights[current_group_phase[1][1]].state = "RED"

\* the key of the single lane of the group with Python index i
KeyOf(i) == current_group_phase[i + 1][1]

Greatest(k) == \A i \in 1..Len(current_group_phase) : ~KeyLess(k, current_group_phase[i][1])

\* before the first completion only the group with the greatest key shows
FirstGreenIsGreatest ==
    (sorted /\ pc = "run" /\ completions = 0) =>
        \A k \in DOMAIN lights : NonRed(k) => Greatest(k)

\* a completion hands over to the next group, whose key is smaller, or wraps
HandOver ==
    (sorted /\ completions' = completions + 1) =>
        IF current_group = Len(current_group_phase) - 1
        THEN current_group' = 0 /\ Greatest(KeyOf(0))
        ELSE /\ current_group' = current_group + 1
             /\ KeyLess(KeyOf(current_group'), KeyOf(current_group))

\* C16 - Canonical service order: after sort_lights the first group to receive
\* GREEN is the one with the greatest key, each completion hands right-of-way to
\* the group with the next smaller key, and after the group with the smallest key
\* the index wraps to the greatest key; the order of the add_light calls has no
\* effect.
C16_ServiceOrder == []FirstGreenIsGreatest /\ [][HandOver]_vars

\* the same order for controllers whose lanes were added under distinct keys
C16_ServiceOrderDistinctKeys ==
    /\ [](DistinctKeys => FirstGreenIsGreatest)
    /\ [][DistinctKeys => HandOver]_vars

CyclicOrder(a, b) ==
    \/ a = b
    \/ a = "RED" /\ b = "GREEN"
    \/ a = "GREEN" /\ b = "YELLOW"
    \/ a = "YELLOW" /\ b = "RED"

\* no light outside the active group is GREEN or YELLOW, so the forced-RED
\* branch finds nothing to turn RED
NothingToForce ==
    current_group_phase # <<>> =>
        \A k \in DOMAIN lights : k \notin ActiveKeys => lights[k].state = "RED"

\* C17 - Under the controller every change of a light's state across an update()
\* follows RED -> GREEN -> YELLOW -> RED; the forced-RED branch never turns a
\* GREEN or YELLOW light RED, so no green or yellow interval is cut short and no
\* light goes from GREEN directly to RED.
C17_CyclicTransitions ==
    /\ []NothingToForce
    /\ [][ticks' = ticks + 1 =>
            \A k \in DOMAIN lights :
                /\ CyclicOrder(lights[k].state, lights'[k].state)
                /\ (lights[k].state # "RED" /\ lights'[k].state # lights[k].state)
                      => lights[k].timer = 0
         ]_vars

\* both lanes of a two-lane controller have gone through a whole cycle
C17_Witness ==
    /\ pc = "run" /\ DistinctKeys /\ Len(current_group_phase) = 2
    /\ completions = 2
    /\ \A k \in DOMAIN lights : lights[k].signal_phase.green_time > 0

AllAtRest == \A k \in DOMAIN lights : lights[k].state = "RED" /\ lights[k].timer = 0

\* C18 - for distinct lanes with non-negative durations, in every reachable
\* state every light outside the active group is RED with timer 0, and while
\* time_in_all_red > 1 every light is RED with timer 0.
C18_IdleLightsAtRest ==
    (DistinctKeys /\ current_group_phase # <<>>) =>
        /\ \A k \in DOMAIN lights :
              k \notin ActiveKeys => lights[k].state = "RED" /\ lights[k].timer = 0
        /\ time_in_all_red > 1 => AllAtRest

\* in the middle of a clearance of a two-lane controller
C18_Witness ==
    /\ pc = "run" /\ DistinctKeys /\ Len(current_group_phase) = 2
    /\ time_in_all_red = 2 /\ all_red_time = 4 /\ current_group = 1

--------------------------------------------------------------------------
(* Liveness *)

\* C19 - No starvation: with at least one lane, non-negative durations and any
\* all_red_time >= 0, if update() keeps being called then every registered lane
\* is GREEN again and again, current_group visits every group index again and
\* again, and a further completion always follows.
C19_NoStarvation ==
    /\ \A k \in Keys :
          (pc = "run" /\ k \in DOMAIN lights)
              ~> (k \in DOMAIN lights /\ lights[k].state = "GREEN")
    /\ \A i \in 0..(MaxLanes - 1) :
          (pc = "run" /\ i < Len(current_group_phase)) ~> (current_group = i)
    /\ (pc = "run") ~> (pc = "run" /\ AllAtRest /\ time_in_all_red = all_red_time)

\* with all_red_time = 0 the second of two lanes is GREEN after the first completed
C19_Witness ==
    /\ pc = "run" /\ all_red_time = 0 /\ time_in_all_red = 0
    /\ Len(current_group_phase) = 2 /\ Cardinality(DOMAIN lights) = 2
    /\ current_group = 1
    /\ lights[current_group_phase[2][1]].state = "GREEN"

--------------------------------------------------------------------------
(* Displayed durations *)

Max(a, b) == IF a >= b THEN a ELSE b

\* the number of dispatching ticks the claim gives the group with index i
HoldTicks(i) ==
    lights[KeyOf(i)].signal_phase.green_time
        + lights[KeyOf(i)].signal_phase.yellow_time + 3

FirstDone == HoldTicks(0)

SecondDone ==
    FirstDone + Max(all_red_time - 1, 0) + HoldTicks(1 % Len(current_group_phase))

\* what one dispatching tick does to an active lane l of phase (g, y)
CountsDown(l, m) ==
    LET g == l.signal_phase.green_time
        y == l.signal_phase.yellow_time
    IN  /\ l.state = "RED" => m.state = "GREEN" /\ m.timer = g
        /\ (l.state = "GREEN" /\ l.timer > 0) => m.state = "GREEN" /\ m.timer = l.timer - 1
        /\ (l.state = "GREEN" /\ l.timer = 0) => m.state = "YELLOW" /\ m.timer = y
        /\ (l.state = "YELLOW" /\ l.timer > 0) => m.state = "YELLOW" /\ m.timer = l.timer - 1
        /\ (l.state = "YELLOW" /\ l.timer = 0) => m.state = "RED" /\ m.timer = 0

\* C20 - Displayed durations: on each activation a lane with SignalPhase(g, y) is
\* GREEN after exactly g+1 consecutive update() calls (timers g down to 0), then
\* YELLOW after exactly y+1 (timers y down to 0); the next update() makes it RED
\* with timer 0 and triggers completion, so a group holds right-of-way for
\* exactly g+y+3 dispatching ticks.
C20_DisplayedDurations ==
    /\ [](\A k \in DOMAIN lights :
            /\ lights[k].state = "GREEN" =>
                  lights[k].timer \in 0..lights[k].signal_phase.green_time
            /\ lights[k].state = "YELLOW" =>
                  lights[k].timer \in 0..lights[k].signal_phase.yellow_time)
    /\ []((pc = "run" /\ current_group_phase # <<>>) =>
            /\ completions = 0 <=> ticks < FirstDone
            /\ completions <= 1 <=> ticks < SecondDone)
    /\ [][DispatchingStep =>
            \A k \in ActiveKeys :
                /\ CountsDown(lights[k], lights'[k])
                /\ (lights[k].state = "YELLOW" /\ lights[k].timer = 0) =>
                      /\ completions' = completions + 1
                      /\ current_group' = (current_group + 1) % Len(current_group_phase)
                      /\ time_in_all_red' = all_red_time
         ]_vars

\* the second of two lanes has completed after a clearance, on the tick the
\* durations predict
C20_Witness ==
    /\ pc = "run" /\ DistinctKeys /\ Len(current_group_phase) = 2
    /\ all_red_time = 3
    /\ lights[KeyOf(0)].signal_phase = SignalPhase(2, 1)
    /\ lights[KeyOf(1)].signal_phase = SignalPhase(1, 0)
    /\ completions = 2 /\ ticks = 12

====
